---- MODULE Spec2Model ----
(***************************************************************************)
(* Model of packages/aws-cdk/lib/api/deploy-stack.ts: deployStack and      *)
(* destroyStack driving a CloudFormation-like remote service.              *)
(*                                                                         *)
(* Every `await` on a remote call is one atomic step of the invocation;    *)
(* between two steps the remote service may move on by itself (a changeset *)
(* stabilizes, a stack reaches a terminal status, somebody else deletes    *)
(* the stack).  Every remote call may also be rejected with an error that  *)
(* is not "does not exist".                                                *)
(***************************************************************************)
EXTENDS Integers, Sequences, FiniteSets, TLC

VARIABLES
    cfn,      \* remote service: stack name -> [stack, cs, nextId]
    inv,      \* invocation slot -> the invocation's options, locals, position
    prev,     \* invocation slot -> summary of the slot's previous invocation
    runs,     \* invocation slot -> number of invocations started in the slot
    extDel    \* number of deletions done by somebody else so far

vars == <<cfn, inv, prev, runs, extDel>>

\* ------------------------------------------------------------------ bounds
MaxInvocations == 2
MaxExternalDeletes == 1
MaxChanges == 1

\* ------------------------------------------------------- optional values
Undefined == <<>>
Some(x) == <<x>>
IsDefined(o) == o # <<>>
Value(o) == o[1]

\* ---------------------------------------------------------- the templates
\* A template document is the ordered list of its top-level entries
\* <<key, n>>, n standing for a scalar of n characters.
KeyWidth(k) ==
    CASE k = "Resources" -> 9
      [] k = "Outputs" -> 7
      [] k = "Description" -> 11
      [] OTHER -> 1

LARGE_TEMPLATE_SIZE_KB == 50

DocA == << <<"Resources", 20>>, <<"Outputs", 10>> >>
DocAr == << <<"Outputs", 10>>, <<"Resources", 20>> >>
DocB == << <<"Resources", 30>>, <<"Outputs", 12>> >>
\* serialized sizes 51200 and 51201
DocMax == << <<"Description", 51186>> >>
DocOver == << <<"Description", 51187>> >>
EmptyDoc == << >>

Docs == {DocA, DocAr, DocMax, DocOver}

\* toYAML: one line "key: scalar\n" per entry, in entry order.
toYAML(doc) ==
    [i \in 1..Len(doc) |->
        [key |-> doc[i][1], scalar |-> doc[i][2],
         width |-> KeyWidth(doc[i][1]) + 2 + doc[i][2] + 1]]

\* String.length of a serialized template.
RECURSIVE TextLength(_)
TextLength(text) ==
    IF text = <<>> THEN 0 ELSE Head(text).width + TextLength(Tail(text))

\* deserializeStructure: the document of a serialized template.
deserializeStructure(text) ==
    [i \in 1..Len(text) |-> <<text[i].key, text[i].scalar>>]

\* JSON.stringify of a document: the members in insertion order.
JSONstringify(doc) ==
    [i \in 1..Len(doc) |-> [name |-> doc[i][1], text |-> doc[i][2]]]

\* ------------------------------------------------------ the remote service
StackNames == {"S1", "S2"}

NoStack ==
    [exists |-> FALSE, id |-> 0, status |-> "NONE", template |-> <<>>,
     outputs |-> {}]

NoChangeSet ==
    [status |-> "NONE", type |-> "NONE", template |-> <<>>, changes |-> 0,
     stackId |-> 0, body |-> Undefined, url |-> Undefined]

\* Outputs a stack exports once `text` is deployed.
OutputsOf(text) ==
    {<<"Out", text[i].scalar>> : i \in {j \in 1..Len(text) : text[j].key = "Outputs"}}

LiveStack(id, status, doc) ==
    [exists |-> TRUE, id |-> id, status |-> status, template |-> toYAML(doc),
     outputs |-> IF status \in {"CREATE_COMPLETE", "UPDATE_COMPLETE"}
                 THEN OutputsOf(toYAML(doc)) ELSE {}]

InProgressStatuses ==
    {"CREATE_IN_PROGRESS", "UPDATE_IN_PROGRESS", "DELETE_IN_PROGRESS",
     "REVIEW_IN_PROGRESS"}
SuccessStatuses == {"CREATE_COMPLETE", "UPDATE_COMPLETE", "DELETE_COMPLETE"}
FailureStatuses ==
    {"ROLLBACK_COMPLETE", "UPDATE_ROLLBACK_COMPLETE", "DELETE_FAILED",
     "CREATE_FAILED"}
FailedCreationStatuses == {"ROLLBACK_COMPLETE"}

\* StackStatusClassifier
Classify(desc) ==
    IF ~IsDefined(desc) THEN "not-found"
    ELSE IF Value(desc).status \in SuccessStatuses THEN "terminal-success"
    ELSE IF Value(desc).status \in FailureStatuses THEN "terminal-failure"
    ELSE "in-progress"

\* describeStack: the description of the stack, undefined when the service
\* answers "does not exist".
describeStack(name) ==
    IF cfn[name].stack.exists THEN Some(cfn[name].stack) ELSE Undefined

stackExists(name) == IsDefined(describeStack(name))

stackFailedCreating(name) ==
    /\ IsDefined(describeStack(name))
    /\ Value(describeStack(name)).status \in FailedCreationStatuses

\* One poll of waitForStack: "pending" (poll again), "return" (with the last
\* description, or nothing for an acceptable absence) or "throw".
waitForStack(name, failOnDeletedStack) ==
    LET desc == describeStack(name)
        class == Classify(desc)
    IN  IF class = "not-found"
        THEN IF failOnDeletedStack
             THEN [kind |-> "throw", desc |-> Undefined]
             ELSE [kind |-> "return", desc |-> Undefined]
        ELSE IF class = "in-progress"
        THEN [kind |-> "pending", desc |-> Undefined]
        ELSE [kind |-> "return", desc |-> desc]

\* One poll of waitForChangeSet.
waitForChangeSet(name) ==
    IF cfn[name].cs.status \in {"CREATE_PENDING", "CREATE_IN_PROGRESS"}
    THEN [kind |-> "pending", desc |-> Undefined]
    ELSE [kind |-> "return", desc |-> Some(cfn[name].cs)]

changeSetHasNoChanges(description) == description.changes = 0


\* ------------------------------------------------------- the invocations
Procs == {"c1", "c2"}

\* DeployStackOptions / DestroyStackOptions, as far as the code reads them.
DeployOptions(name) ==
    [op : {"deploy"}, name : {name}, hasEnv : BOOLEAN, force : BOOLEAN,
     execute : {"unset", "true", "false"}, quiet : BOOLEAN,
     toolkit : BOOLEAN, template : Docs]

DestroyOptions(name) ==
    [op : {"destroy"}, name : {name}, hasEnv : BOOLEAN, force : {FALSE},
     execute : {"unset"}, quiet : BOOLEAN, toolkit : {FALSE},
     template : {DocA}]

NoOptions ==
    [op |-> "none", name |-> "S1", hasEnv |-> FALSE, force |-> FALSE,
     execute |-> "unset", quiet |-> FALSE, toolkit |-> FALSE,
     template |-> DocA]

NoResult == [noOp |-> FALSE, outputs |-> {}, stackArn |-> 0]
NoError == [kind |-> "None", status |-> "NONE", call |-> "none"]
NoBody == [TemplateBody |-> Undefined, TemplateURL |-> Undefined]

IdleInv ==
    [pc |-> "idle", opts |-> NoOptions,
     client |-> FALSE,           \* cfn client acquired
     before |-> NoStack,         \* the stack as it was when the invocation began
     deployed |-> Undefined,     \* getDeployedTemplate's result
     compared |-> "no",          \* skip comparison: "no", "equal", "different"
     body |-> NoBody,            \* bodyParameter
     idSeen |-> "no",            \* getStackId's describeStacks: "no", "absent", "found"
     templateSeen |-> "no",      \* readCurrentTemplate's getTemplate: likewise
     checked |-> "no",           \* status at the failed-creation check
     sawFailed |-> FALSE,        \* stackFailedCreating answered true
     deletedStack |-> Undefined, \* result of the wait after the recovery delete
     recovered |-> "no",         \* recovery wait: "no", "absent" or the status
     existed |-> "no",           \* status at the existence check
     update |-> FALSE,
     request |-> Undefined,      \* the createChangeSet request
     changeSet |-> 0,            \* changeSet.StackId
     description |-> NoChangeSet,\* changeSetDescription
     emptyDiff |-> FALSE,        \* changeSetHasNoChanges answered true
     monitor |-> "none",         \* "none", "running", "stopped"
     starts |-> 0, stops |-> 0,  \* StackActivityMonitor start() / stop() calls
     waited |-> "no",            \* stack wait: "no", "absent", "error" or the status
     calls |-> <<>>,             \* the calls issued, in order
     outcome |-> "none",         \* "running", "returned", "failed"
     via |-> "none",             \* which return statement produced the result
     result |-> NoResult, error |-> NoError]

NoPrev ==
    [opts |-> NoOptions, outcome |-> "none", via |-> "none",
     result |-> NoResult, error |-> "None"]

MutatingCalls ==
    {"deleteStack", "createChangeSet", "deleteChangeSet", "executeChangeSet"}

Issued(r, c) == \E i \in 1..Len(r.calls) : r.calls[i] = c
Count(r, c) == Cardinality({i \in 1..Len(r.calls) : r.calls[i] = c})
Mutations(r) == Cardinality({i \in 1..Len(r.calls) : r.calls[i] \in MutatingCalls})

Log(r, c) == [r EXCEPT !.calls = Append(@, c)]

\* The invocation ends by throwing.
Throw(r, kind, status, call) ==
    [r EXCEPT !.pc = "done", !.outcome = "failed",
              !.error = [kind |-> kind, status |-> status, call |-> call]]

\* the rejection swallowed: the call is made again
RemoteErrorRetried(r, call) == Log(r, call)

\* A remote call rejected with an error other than "does not exist".
RemoteError(r, call) == Throw(Log(r, call), "RemoteError", "NONE", call)

\* The invocation ends by returning.
Return(r, via, res) ==
    [r EXCEPT !.pc = "done", !.outcome = "returned", !.via = via,
              !.result = res]

At(p, pc) == inv[p].pc = pc

\* the stack name kept in one place shared by all invocations
NameShared(p) == "S1"

\* const deployName = options.deployName || options.stack.name
Name(p) == inv[p].opts.name
Step(p, r) == inv' = [inv EXCEPT ![p] = r]
Same(p) == UNCHANGED <<cfn, prev, runs, extDel>>
SetStack(name, s) == cfn' = [cfn EXCEPT ![name].stack = s]

\* getStackOutputs (the description already fetched)
getStackOutputs(description) ==
    IF IsDefined(description) THEN Value(description).outputs ELSE {}


\* ------------------------------------------------------------ deployStack
\* A slot's first invocation takes any options; a later one repeats the
\* options of the one before (the caller re-runs the same command).
CanStart(p, o) ==
    /\ At(p, "idle")
    /\ runs[p] < MaxInvocations
    /\ runs[p] > 0 => o = prev[p].opts

Begin(p, o) ==
    [IdleInv EXCEPT !.opts = o, !.outcome = "running",
                    !.before = cfn[o.name].stack]

\* the force option not read
skipGuardAlways(options) == TRUE

\* if (!options.force)
skipGuardApplies(options) == ~options.force

\* the comparison written with !== instead of ===
templateUnchangedInverted(options, deployed) ==
    /\ IsDefined(deployed)
    /\ JSONstringify(options.template) # JSONstringify(Value(deployed).template)

\* deployed && JSON.stringify(options.stack.template) === JSON.stringify(deployed.template)
templateUnchanged(options, deployed) ==
    /\ IsDefined(deployed)
    /\ JSONstringify(options.template) = JSONstringify(Value(deployed).template)

\* the environment check left out
environmentMissingNever(options) == FALSE

\* if (!options.stack.environment)
environmentMissing(options) == ~options.hasEnv

DeployStart(p, o) ==
    /\ CanStart(p, o)
    /\ o.op = "deploy"
    /\ runs' = [runs EXCEPT ![p] = @ + 1]
    /\ IF environmentMissing(o)
       THEN Step(p, Throw(Begin(p, o), "NoEnvironment", "NONE", "none"))
       ELSE Step(p, [Begin(p, o) EXCEPT
                !.client = TRUE,
                !.pc = IF skipGuardApplies(o) THEN "getStackId"
                       ELSE "prepareAssets"])
    /\ UNCHANGED <<cfn, prev, extDel>>

\* The error a rejected call carries. A call that names a stack the service
\* does not know is rejected with NotFound; Rejected stands for every other
\* error.
NoFailure == [code |-> "None", message |-> <<>>]
NotFound(name) ==
    [code |-> "ValidationError",
     message |-> <<"Stack with id ", name, " does not exist">>]
Rejected == [code |-> "Throttling", message |-> <<"Rate exceeded">>]

\* cfn.describeStacks({ StackName }).promise()
describeStacks(name, ok) ==
    IF ~ok THEN [error |-> Rejected, Stacks |-> <<>>]
    ELSE IF ~cfn[name].stack.exists
    THEN [error |-> NotFound(name), Stacks |-> <<>>]
    ELSE [error |-> NoFailure, Stacks |-> <<cfn[name].stack>>]

\* cfn.getTemplate({ StackName }).promise()
getTemplate(name, ok) ==
    IF ~ok THEN [error |-> Rejected, TemplateBody |-> <<>>]
    ELSE IF ~cfn[name].stack.exists
    THEN [error |-> NotFound(name), TemplateBody |-> <<>>]
    ELSE [error |-> NoFailure, TemplateBody |-> cfn[name].stack.template]

\* what a response shows of the stack: "absent", "found", or "no" when the
\* call was rejected for another reason
Seen(response) ==
    IF response.error = NoFailure THEN "found"
    ELSE IF response.error.code = "ValidationError" THEN "absent" ELSE "no"

\* if (e.message.includes('does not exist')) { return undefined; }
getStackIdCatches(e) ==
    \E i \in 1..Len(e.message) : e.message[i] = " does not exist"

\* getStackId: the stack's id, undefined when the stack does not exist;
\* throws every other error
getStackId(response) ==
    IF response.error # NoFailure
    THEN [throws |-> ~getStackIdCatches(response.error), value |-> Undefined]
    ELSE IF Len(response.Stacks) # 1
    THEN [throws |-> FALSE, value |-> Undefined]
    ELSE [throws |-> FALSE, value |-> Some(response.Stacks[1].id)]

\* getStackId, called by getDeployedTemplate
GetStackId(p) ==
    /\ At(p, "getStackId")
    /\ \E ok \in BOOLEAN :
        LET response == describeStacks(Name(p), ok)
            stackId == getStackId(response)
            r == [Log(inv[p], "describeStacks") EXCEPT
                    !.idSeen = Seen(response)]
        IN  IF stackId.throws
            THEN Step(p, RemoteError([inv[p] EXCEPT !.idSeen = Seen(response)],
                                     "describeStacks"))
            ELSE IF ~IsDefined(stackId.value)
            THEN Step(p, [r EXCEPT !.pc = "prepareAssets"])
            ELSE Step(p, [r EXCEPT !.pc = "readCurrentTemplate",
                    !.deployed = Some([stackId |-> Value(stackId.value),
                                       template |-> EmptyDoc])])
    /\ Same(p)

\* the "does not exist" error of getTemplate not caught
readCurrentTemplateCatchesNone(e, stackName) == FALSE

\* if (e.code === 'ValidationError' && e.message === `Stack with id ${stackName} does not exist`)
readCurrentTemplateCatches(e, stackName) ==
    /\ e.code = "ValidationError"
    /\ e.message = <<"Stack with id ", stackName, " does not exist">>

\* (response.TemplateBody && deserializeStructure(response.TemplateBody)) || {}
\* and {} when the stack does not exist; throws every other error
readCurrentTemplate(stackName, response) ==
    IF response.error # NoFailure
    THEN [throws |-> ~readCurrentTemplateCatches(response.error, stackName),
          value |-> EmptyDoc]
    ELSE [throws |-> FALSE,
          value |-> IF response.TemplateBody # <<>>
                    THEN deserializeStructure(response.TemplateBody)
                    ELSE EmptyDoc]

\* readCurrentTemplate and the comparison of line 79
ReadCurrentTemplate(p) ==
    /\ At(p, "readCurrentTemplate")
    /\ \E ok \in BOOLEAN :
        LET response == getTemplate(Name(p), ok)
            template == readCurrentTemplate(Name(p), response)
            r == [Log(inv[p], "getTemplate") EXCEPT
                    !.templateSeen = Seen(response)]
            deployed == Some([stackId |-> Value(inv[p].deployed).stackId,
                              template |-> template.value])
        IN  IF template.throws
            THEN Step(p, RemoteError([inv[p] EXCEPT
                                        !.templateSeen = Seen(response)],
                                     "getTemplate"))
            ELSE IF templateUnchanged(inv[p].opts, deployed)
            THEN Step(p, [r EXCEPT !.deployed = deployed,
                    !.compared = "equal", !.pc = "skipReturn"])
            ELSE Step(p, [r EXCEPT !.deployed = deployed,
                    !.compared = "different", !.pc = "prepareAssets"])
    /\ Same(p)

\* the result of lines 81-86
skipResult(deployed, description) ==
    [noOp |-> TRUE, outputs |-> getStackOutputs(description),
     stackArn |-> Value(deployed).stackId]

\* return { noOp: true, outputs: await getStackOutputs(...), stackArn: deployed.stackId }
SkipReturn(p) ==
    /\ At(p, "skipReturn")
    /\ \E ok \in BOOLEAN :
        IF ~ok THEN Step(p, RemoteError(inv[p], "describeStacks"))
        ELSE Step(p, Return(Log(inv[p], "describeStacks"), "skip",
                skipResult(inv[p].deployed, describeStack(Name(p)))))
    /\ Same(p)

\* prepareAssets: publishes the assets and yields their parameters, or throws
PrepareAssets(p) ==
    /\ At(p, "prepareAssets")
    /\ \E ok \in BOOLEAN :
        IF ~ok THEN Step(p, Throw(Log(inv[p], "prepareAssets"), "AssetError",
                                  "NONE", "prepareAssets"))
        ELSE Step(p, [Log(inv[p], "prepareAssets") EXCEPT
                !.pc = "makeBodyParameter"])
    /\ Same(p)

\* the inline body kept next to the uploaded reference
makeBodyParameterBoth(template, toolkitInfo) ==
    LET templateJson == toYAML(template)
    IN  IF toolkitInfo
        THEN [throws |-> FALSE,
              value |-> [TemplateBody |-> Some(templateJson),
                         TemplateURL |-> Some([bucketUrl |-> "bucket",
                                               key |-> templateJson])]]
        ELSE IF TextLength(templateJson) > LARGE_TEMPLATE_SIZE_KB * 1024
        THEN [throws |-> TRUE, value |-> NoBody]
        ELSE [throws |-> FALSE,
              value |-> [TemplateBody |-> Some(templateJson),
                         TemplateURL |-> Undefined]]

\* the size limit tested with >= instead of >
makeBodyParameterOffByOne(template, toolkitInfo) ==
    LET templateJson == toYAML(template)
    IN  IF toolkitInfo
        THEN [throws |-> FALSE,
              value |-> [TemplateBody |-> Undefined,
                         TemplateURL |-> Some([bucketUrl |-> "bucket",
                                               key |-> templateJson])]]
        ELSE IF TextLength(templateJson) >= LARGE_TEMPLATE_SIZE_KB * 1024
        THEN [throws |-> TRUE, value |-> NoBody]
        ELSE [throws |-> FALSE,
              value |-> [TemplateBody |-> Some(templateJson),
                         TemplateURL |-> Undefined]]

\* makeBodyParameter: [throws, value]
makeBodyParameter(template, toolkitInfo) ==
    LET templateJson == toYAML(template)
    IN  IF toolkitInfo
        THEN [throws |-> FALSE,
              value |-> [TemplateBody |-> Undefined,
                         TemplateURL |-> Some([bucketUrl |-> "bucket",
                                               key |-> templateJson])]]
        ELSE IF TextLength(templateJson) > LARGE_TEMPLATE_SIZE_KB * 1024
        THEN [throws |-> TRUE, value |-> NoBody]
        ELSE [throws |-> FALSE,
              value |-> [TemplateBody |-> Some(templateJson),
                         TemplateURL |-> Undefined]]

\* const bodyParameter = await makeBodyParameter(options.stack, options.toolkitInfo)
MakeBodyParameter(p) ==
    /\ At(p, "makeBodyParameter")
    /\ LET o == inv[p].opts
           made == makeBodyParameter(o.template, o.toolkit)
       IN  \E ok \in BOOLEAN :
            IF made.throws
            THEN Step(p, Throw(inv[p], "TemplateTooLarge", "NONE", "none"))
            ELSE IF o.toolkit /\ ~ok
            THEN Step(p, RemoteError(inv[p], "uploadIfChanged"))
            ELSE Step(p, [(IF o.toolkit THEN Log(inv[p], "uploadIfChanged")
                           ELSE inv[p]) EXCEPT
                    !.body = made.value, !.pc = "stackFailedCreating"])
    /\ Same(p)

\* what a description shows: the stack's status, or its absence
Observed(desc) == IF IsDefined(desc) THEN Value(desc).status ELSE "absent"

\* if (await stackFailedCreating(cfn, deployName))
StackFailedCreating(p) ==
    /\ At(p, "stackFailedCreating")
    /\ \E ok \in BOOLEAN :
        LET r == [Log(inv[p], "describeStacks") EXCEPT
                    !.checked = Observed(describeStack(Name(p)))]
        IN  IF ~ok THEN Step(p, RemoteError(inv[p], "describeStacks"))
            ELSE IF stackFailedCreating(Name(p))
            THEN Step(p, [r EXCEPT !.sawFailed = TRUE, !.pc = "recoverDelete"])
            ELSE Step(p, [r EXCEPT !.pc = "stackExists"])
    /\ Same(p)

\* The service accepts deleteStack: a live stack starts deleting, a missing
\* one is left alone.
AcceptDelete(name) ==
    IF cfn[name].stack.exists
    THEN SetStack(name, [cfn[name].stack EXCEPT !.status = "DELETE_IN_PROGRESS",
                                                !.outputs = {}])
    ELSE UNCHANGED cfn

\* await cfn.deleteStack({ StackName: deployName }).promise()
RecoverDelete(p) ==
    /\ At(p, "recoverDelete")
    /\ \E ok \in BOOLEAN :
        IF ~ok
        THEN Step(p, RemoteError(inv[p], "deleteStack")) /\ UNCHANGED cfn
        ELSE /\ Step(p, [Log(inv[p], "deleteStack") EXCEPT !.pc = "recoverWait"])
             /\ AcceptDelete(Name(p))
    /\ UNCHANGED <<prev, runs, extDel>>

\* the status of the deleted stack compared with === instead of !==
recoveryFailedInverted(deletedStack) ==
    IsDefined(deletedStack) /\ Value(deletedStack).status = "DELETE_COMPLETE"

\* deletedStack && deletedStack.StackStatus !== 'DELETE_COMPLETE'
recoveryFailed(deletedStack) ==
    IsDefined(deletedStack) /\ Value(deletedStack).status # "DELETE_COMPLETE"

\* const deletedStack = await waitForStack(cfn, deployName, false) and the
\* check of lines 115-117
RecoverWait(p) ==
    /\ At(p, "recoverWait")
    /\ \E ok \in BOOLEAN :
        LET w == waitForStack(Name(p), FALSE)
            r == [Log(inv[p], "waitForStack") EXCEPT
                    !.deletedStack = w.desc, !.recovered = Observed(w.desc)]
        IN  IF ~ok THEN Step(p, RemoteError(inv[p], "waitForStack"))
            ELSE /\ w.kind = "return"
                 /\ IF recoveryFailed(w.desc)
                    THEN Step(p, Throw(r, "FailedDeleting",
                                       Value(w.desc).status, "none"))
                    ELSE Step(p, [r EXCEPT !.pc = "stackExists"])
    /\ Same(p)

\* const update = await stackExists(cfn, deployName)
StackExists(p) ==
    /\ At(p, "stackExists")
    /\ \E ok \in BOOLEAN :
        IF ~ok THEN Step(p, RemoteError(inv[p], "describeStacks"))
        ELSE Step(p, [Log(inv[p], "describeStacks") EXCEPT
                !.existed = Observed(describeStack(Name(p))),
                !.update = stackExists(Name(p)), !.pc = "createChangeSet"])
    /\ Same(p)


\* the two changeset types exchanged
changeSetTypeInverted(update) == IF update THEN "CREATE" ELSE "UPDATE"

\* ChangeSetType: update ? 'UPDATE' : 'CREATE'
changeSetType(update) == IF update THEN "UPDATE" ELSE "CREATE"

\* the createChangeSet request of lines 125-137
changeSetRequest(name, update, bodyParameter) ==
    [StackName |-> name, ChangeSetType |-> changeSetType(update),
     TemplateBody |-> bodyParameter.TemplateBody,
     TemplateURL |-> bodyParameter.TemplateURL]

UpdatableStatuses ==
    {"CREATE_COMPLETE", "UPDATE_COMPLETE", "UPDATE_ROLLBACK_COMPLETE"}

\* The service accepts a changeset that names exactly one template, of type
\* UPDATE for a stack that can be updated, of type CREATE for a name that is
\* free or only under review.
Acceptable(req) ==
    LET stack == cfn[req.StackName].stack
    IN  /\ IsDefined(req.TemplateBody) # IsDefined(req.TemplateURL)
        /\ IF req.ChangeSetType = "UPDATE"
           THEN stack.exists /\ stack.status \in UpdatableStatuses
           ELSE ~stack.exists \/ stack.status = "REVIEW_IN_PROGRESS"

SubmittedText(req) ==
    IF IsDefined(req.TemplateBody) THEN Value(req.TemplateBody)
    ELSE Value(req.TemplateURL).key

\* The service registers the changeset; a CREATE changeset on a free name
\* brings the stack into being, under review, with a fresh id.
AcceptChangeSet(req) ==
    LET name == req.StackName
        old == cfn[name].stack
        stack == IF old.exists THEN old
                 ELSE [NoStack EXCEPT !.exists = TRUE, !.id = cfn[name].nextId,
                                      !.status = "REVIEW_IN_PROGRESS"]
    IN  cfn' = [cfn EXCEPT
            ![name].stack = stack,
            ![name].nextId = IF old.exists THEN @ ELSE @ + 1,
            ![name].cs = [NoChangeSet EXCEPT !.status = "CREATE_PENDING",
                            !.type = req.ChangeSetType,
                            !.template = SubmittedText(req),
                            !.stackId = stack.id,
                            !.body = req.TemplateBody,
                            !.url = req.TemplateURL]]

\* const changeSet = await cfn.createChangeSet({...}).promise()
CreateChangeSet(p) ==
    /\ At(p, "createChangeSet")
    /\ LET req == changeSetRequest(Name(p), inv[p].update, inv[p].body)
           r == [Log(inv[p], "createChangeSet") EXCEPT !.request = Some(req)]
       IN  \E ok \in BOOLEAN :
            IF ~ok
            THEN Step(p, Throw(r, "RemoteError", "NONE", "createChangeSet"))
                 /\ UNCHANGED cfn
            ELSE /\ Acceptable(req)
                 /\ AcceptChangeSet(req)
                 /\ Step(p, [r EXCEPT !.changeSet = cfn'[Name(p)].cs.stackId,
                                      !.pc = "waitForChangeSet"])
    /\ UNCHANGED <<prev, runs, extDel>>

\* an unset execute option taken as false
executeRequestedDefaultFalse(options) == options.execute = "true"

\* const execute = options.execute === undefined ? true : options.execute
executeRequested(options) ==
    IF options.execute = "unset" THEN TRUE ELSE options.execute = "true"

\* execution decided before the empty-diff check
afterChangeSetExecuteFirst(options, description) ==
    IF executeRequested(options) THEN "executeChangeSet"
    ELSE IF changeSetHasNoChanges(description) THEN "deleteChangeSet"
    ELSE "returnResult"

\* the branches of lines 141 and 147-148: where deployStack goes on
afterChangeSet(options, description) ==
    IF changeSetHasNoChanges(description) THEN "deleteChangeSet"
    ELSE IF executeRequested(options) THEN "executeChangeSet"
    ELSE "returnResult"

\* const changeSetDescription = await waitForChangeSet(...) and what follows
WaitForChangeSet(p) ==
    /\ At(p, "waitForChangeSet")
    /\ \E ok \in BOOLEAN :
        LET w == waitForChangeSet(Name(p))
            r == [Log(inv[p], "waitForChangeSet") EXCEPT
                    !.description = Value(w.desc)]
        IN  IF ~ok THEN Step(p, RemoteError(inv[p], "waitForChangeSet"))
            ELSE /\ w.kind = "return"
                 /\ cfn[Name(p)].cs.status # "NONE"
                 /\ Step(p, [r EXCEPT
                        !.emptyDiff = changeSetHasNoChanges(Value(w.desc)),
                        !.pc = afterChangeSet(inv[p].opts, Value(w.desc))])
    /\ Same(p)

\* await cfn.deleteChangeSet({...}).promise()
DeleteChangeSet(p) ==
    /\ At(p, "deleteChangeSet")
    /\ \E ok \in BOOLEAN :
        IF ~ok
        THEN Step(p, RemoteError(inv[p], "deleteChangeSet")) /\ UNCHANGED cfn
        ELSE /\ cfn[Name(p)].cs.status # "NONE"
             /\ cfn' = [cfn EXCEPT ![Name(p)].cs.status = "DELETED"]
             /\ Step(p, [Log(inv[p], "deleteChangeSet") EXCEPT
                    !.pc = "noOpReturn"])
    /\ UNCHANGED <<prev, runs, extDel>>

\* the result of line 144
noOpResult(stackId, description) ==
    [noOp |-> TRUE, outputs |-> getStackOutputs(description),
     stackArn |-> stackId]

\* return { noOp: true, outputs: await getStackOutputs(...), stackArn: changeSet.StackId }
NoOpReturn(p) ==
    /\ At(p, "noOpReturn")
    /\ \E ok \in BOOLEAN :
        IF ~ok THEN Step(p, RemoteError(inv[p], "describeStacks"))
        ELSE Step(p, Return(Log(inv[p], "describeStacks"), "emptyDiff",
                noOpResult(inv[p].changeSet, describeStack(Name(p)))))
    /\ Same(p)

\* the monitor started whatever the quiet option says
startMonitorAlways(r) ==
    [Log(r, "monitor.start") EXCEPT !.monitor = "running", !.starts = @ + 1]

\* options.quiet ? undefined : new StackActivityMonitor(...).start()
startMonitor(r) ==
    IF r.opts.quiet THEN r
    ELSE [Log(r, "monitor.start") EXCEPT !.monitor = "running",
                                         !.starts = @ + 1]

\* await monitor.stop()
stopMonitor(r) ==
    [Log(r, "monitor.stop") EXCEPT !.monitor = "stopped", !.stops = @ + 1]

\* await cfn.executeChangeSet({...}).promise() and the monitor of line 152
ExecuteChangeSet(p) ==
    /\ At(p, "executeChangeSet")
    /\ \E ok \in BOOLEAN :
        IF ~ok
        THEN Step(p, RemoteError(inv[p], "executeChangeSet")) /\ UNCHANGED cfn
        ELSE /\ cfn[Name(p)].cs.status = "CREATE_COMPLETE"
             /\ cfn[Name(p)].stack.exists
             /\ cfn' = [cfn EXCEPT
                    ![Name(p)].cs.status = "EXECUTE_IN_PROGRESS",
                    ![Name(p)].stack.status =
                        IF cfn[Name(p)].cs.type = "CREATE"
                        THEN "CREATE_IN_PROGRESS" ELSE "UPDATE_IN_PROGRESS"]
             /\ Step(p, [startMonitor(Log(inv[p], "executeChangeSet")) EXCEPT
                    !.pc = "waitForStack"])
    /\ UNCHANGED <<prev, runs, extDel>>

\* What follows `await waitForStack(cfn, deployName)`: its result is dropped.
afterDeployWait(r, w) ==
    IF w.kind = "throw"
    THEN Throw([r EXCEPT !.waited = "absent"], "StackDeleted", "NONE", "none")
    ELSE [r EXCEPT !.waited = Observed(w.desc),
                   !.pc = IF r.monitor = "running" THEN "stopMonitor"
                          ELSE "returnResult"]

\* waitForStack not awaited: the invocation goes on while the stack is still
\* in progress
WaitForStackNotAwaited(p) ==
    /\ At(p, "waitForStack")
    /\ \E ok \in BOOLEAN :
        LET w == waitForStack(Name(p), TRUE)
        IN  IF ~ok
            THEN Step(p, RemoteError([inv[p] EXCEPT !.waited = "error"],
                                     "waitForStack"))
            ELSE Step(p, afterDeployWait(Log(inv[p], "waitForStack"), w))
    /\ Same(p)

\* await waitForStack(cfn, deployName)
WaitForStack(p) ==
    /\ At(p, "waitForStack")
    /\ \E ok \in BOOLEAN :
        LET w == waitForStack(Name(p), TRUE)
        IN  IF ~ok
            THEN Step(p, RemoteError([inv[p] EXCEPT !.waited = "error"],
                                     "waitForStack"))
            ELSE /\ w.kind # "pending"
                 /\ Step(p, afterDeployWait(Log(inv[p], "waitForStack"), w))
    /\ Same(p)

\* if (monitor) { await monitor.stop(); }
StopMonitor(p) ==
    /\ At(p, "stopMonitor")
    /\ Step(p, [stopMonitor(inv[p]) EXCEPT !.pc = "returnResult"])
    /\ Same(p)

\* the result of line 162
deployResult(stackId, description) ==
    [noOp |-> FALSE, outputs |-> getStackOutputs(description),
     stackArn |-> stackId]

\* return { noOp: false, outputs: await getStackOutputs(...), stackArn: changeSet.StackId }
ReturnResult(p) ==
    /\ At(p, "returnResult")
    /\ \E ok \in BOOLEAN :
        IF ~ok THEN Step(p, RemoteError(inv[p], "describeStacks"))
        ELSE Step(p, Return(Log(inv[p], "describeStacks"),
                IF executeRequested(inv[p].opts) THEN "executed" ELSE "review",
                deployResult(inv[p].changeSet, describeStack(Name(p)))))
    /\ Same(p)

\* ----------------------------------------------------------- destroyStack
DestroyStart(p, o) ==
    /\ CanStart(p, o)
    /\ o.op = "destroy"
    /\ runs' = [runs EXCEPT ![p] = @ + 1]
    /\ IF environmentMissing(o)
       THEN Step(p, Throw(Begin(p, o), "NoEnvironment", "NONE", "none"))
       ELSE Step(p, [Begin(p, o) EXCEPT !.client = TRUE,
                                        !.pc = "destroyStackExists"])
    /\ UNCHANGED <<cfn, prev, extDel>>

\* the delete issued whatever the existence check says
destroyIsNoOpNever(exists) == FALSE

\* if (!await stackExists(cfn, deployName)) { return; }
destroyIsNoOp(exists) == ~exists

\* if (!await stackExists(cfn, deployName)) { return; } and the monitor of
\* line 230
DestroyStackExists(p) ==
    /\ At(p, "destroyStackExists")
    /\ \E ok \in BOOLEAN :
        LET r == Log(inv[p], "describeStacks")
        IN  IF ~ok THEN Step(p, RemoteError(inv[p], "describeStacks"))
            ELSE IF destroyIsNoOp(stackExists(Name(p)))
            THEN Step(p, Return(r, "absent", NoResult))
            ELSE Step(p, [startMonitor(r) EXCEPT !.pc = "destroyDelete"])
    /\ Same(p)

\* await cfn.deleteStack({ StackName: deployName, RoleARN: options.roleArn }).promise()
DestroyDelete(p) ==
    /\ At(p, "destroyDelete")
    /\ \E ok \in BOOLEAN :
        IF ~ok
        THEN Step(p, RemoteError(inv[p], "deleteStack")) /\ UNCHANGED cfn
        ELSE /\ Step(p, [Log(inv[p], "deleteStack") EXCEPT !.pc = "destroyWait"])
             /\ AcceptDelete(Name(p))
    /\ UNCHANGED <<prev, runs, extDel>>

\* the final status never looked at
destroyFailedNever(destroyedStack) == FALSE

\* destroyedStack && destroyedStack.StackStatus !== 'DELETE_COMPLETE'
destroyFailed(destroyedStack) ==
    IsDefined(destroyedStack) /\ Value(destroyedStack).status # "DELETE_COMPLETE"

\* lines 234-238
destroyOutcome(r, destroyedStack) ==
    IF destroyFailed(destroyedStack)
    THEN Throw(r, "FailedToDestroy", Value(destroyedStack).status, "none")
    ELSE Return(r, "destroyed", NoResult)

\* const destroyedStack = await waitForStack(cfn, deployName, false)
DestroyWait(p) ==
    /\ At(p, "destroyWait")
    /\ \E ok \in BOOLEAN :
        LET w == waitForStack(Name(p), FALSE)
            r == [Log(inv[p], "waitForStack") EXCEPT
                    !.deletedStack = w.desc, !.waited = Observed(w.desc)]
        IN  IF ~ok
            THEN Step(p, RemoteError([inv[p] EXCEPT !.waited = "error"],
                                     "waitForStack"))
            ELSE /\ w.kind = "return"
                 /\ IF r.monitor = "running"
                    THEN Step(p, [r EXCEPT !.pc = "destroyStop"])
                    ELSE Step(p, destroyOutcome(r, w.desc))
    /\ Same(p)

\* if (monitor) { await monitor.stop(); } and lines 234-238
DestroyStop(p) ==
    /\ At(p, "destroyStop")
    /\ Step(p, destroyOutcome(stopMonitor(inv[p]), inv[p].deletedStack))
    /\ Same(p)

\* ------------------------------------------------ between two invocations
\* The caller takes the result; the slot is free for the next invocation.
\* (A caller whose invocation failed stops there.)
Finish(p) ==
    /\ At(p, "done")
    /\ inv[p].outcome = "returned"
    /\ runs[p] < MaxInvocations
    /\ prev' = [prev EXCEPT ![p] =
            [opts |-> inv[p].opts, outcome |-> inv[p].outcome,
             via |-> inv[p].via, result |-> inv[p].result,
             error |-> inv[p].error.kind]]
    /\ Step(p, IdleInv)
    /\ UNCHANGED <<cfn, runs, extDel>>

\* ------------------------------------------------- the service, by itself
\* A changeset leaves its transitional status: with changes, or, with none,
\* as failed.
ChangeSetStabilizes(name) ==
    /\ cfn[name].cs.status = "CREATE_PENDING"
    /\ \E n \in 0..MaxChanges :
        cfn' = [cfn EXCEPT ![name].cs.changes = n,
                    ![name].cs.status = IF n = 0 THEN "FAILED"
                                        ELSE "CREATE_COMPLETE"]
    /\ UNCHANGED <<inv, prev, runs, extDel>>

Gone(name) == cfn' = [cfn EXCEPT ![name].stack = NoStack, ![name].cs = NoChangeSet]

\* A stack leaves its in-progress status.
StackSettles(name) ==
    /\ cfn[name].stack.exists
    /\ LET stack == cfn[name].stack
           text == cfn[name].cs.template
       IN  \E good \in BOOLEAN :
            CASE stack.status = "CREATE_IN_PROGRESS" ->
                    SetStack(name, [stack EXCEPT
                        !.status = IF good THEN "CREATE_COMPLETE"
                                   ELSE "ROLLBACK_COMPLETE",
                        !.template = text,
                        !.outputs = IF good THEN OutputsOf(text) ELSE {}])
              [] stack.status = "UPDATE_IN_PROGRESS" ->
                    SetStack(name, [stack EXCEPT
                        !.status = IF good THEN "UPDATE_COMPLETE"
                                   ELSE "UPDATE_ROLLBACK_COMPLETE",
                        !.template = IF good THEN text ELSE @,
                        !.outputs = IF good THEN OutputsOf(text) ELSE @])
              [] stack.status = "DELETE_IN_PROGRESS" ->
                    IF good THEN Gone(name)
                    ELSE SetStack(name, [stack EXCEPT !.status = "DELETE_FAILED"])
              [] OTHER -> FALSE
    /\ UNCHANGED <<inv, prev, runs, extDel>>

\* Somebody else deletes the stack while an invocation is talking to the
\* service about it.
ExternalDelete(name) ==
    /\ extDel < MaxExternalDeletes
    /\ cfn[name].stack.exists
    /\ \E p \in Procs :
        /\ inv[p].outcome = "running"
        /\ Name(p) = name
        /\ inv[p].calls # <<>>
    /\ Gone(name)
    /\ extDel' = extDel + 1
    /\ UNCHANGED <<inv, prev, runs>>

\* ------------------------------------------------------ the specification
InitialStacks ==
    {NoStack,
     LiveStack(1, "CREATE_COMPLETE", DocA),
     LiveStack(1, "CREATE_COMPLETE", DocOver),
     LiveStack(1, "ROLLBACK_COMPLETE", DocA),
     LiveStack(1, "UPDATE_ROLLBACK_COMPLETE", DocB)}

Init ==
    /\ \E s \in InitialStacks :
        cfn = [n \in StackNames |->
                [stack |-> IF n = "S1" THEN s ELSE NoStack,
                 cs |-> NoChangeSet, nextId |-> 2]]
    /\ inv = [p \in Procs |-> IdleInv]
    /\ prev = [p \in Procs |-> NoPrev]
    /\ runs = [p \in Procs |-> 0]
    /\ extDel = 0

\* One caller, one stack name, one invocation at a time.
Caller == "c1"
Target == "S1"

Next ==
    \/ \E o \in DeployOptions(Target) : DeployStart(Caller, o)
    \/ GetStackId(Caller)
    \/ ReadCurrentTemplate(Caller)
    \/ SkipReturn(Caller)
    \/ PrepareAssets(Caller)
    \/ MakeBodyParameter(Caller)
    \/ StackFailedCreating(Caller)
    \/ RecoverDelete(Caller)
    \/ RecoverWait(Caller)
    \/ StackExists(Caller)
    \/ CreateChangeSet(Caller)
    \/ WaitForChangeSet(Caller)
    \/ DeleteChangeSet(Caller)
    \/ NoOpReturn(Caller)
    \/ ExecuteChangeSet(Caller)
    \/ WaitForStack(Caller)
    \/ StopMonitor(Caller)
    \/ ReturnResult(Caller)
    \/ \E o \in DestroyOptions(Target) : DestroyStart(Caller, o)
    \/ DestroyStackExists(Caller)
    \/ DestroyDelete(Caller)
    \/ DestroyWait(Caller)
    \/ DestroyStop(Caller)
    \/ Finish(Caller)
    \/ ChangeSetStabilizes(Target)
    \/ StackSettles(Target)
    \/ ExternalDelete(Target)

Spec == Init /\ [][Next]_vars

\* A step of the invocation in slot p, once started.
InvocationStep(p) ==
    \/ GetStackId(p) \/ ReadCurrentTemplate(p) \/ SkipReturn(p)
    \/ PrepareAssets(p) \/ MakeBodyParameter(p) \/ StackFailedCreating(p)
    \/ RecoverDelete(p) \/ RecoverWait(p) \/ StackExists(p)
    \/ CreateChangeSet(p) \/ WaitForChangeSet(p) \/ DeleteChangeSet(p)
    \/ NoOpReturn(p) \/ ExecuteChangeSet(p) \/ WaitForStack(p)
    \/ StopMonitor(p) \/ ReturnResult(p)
    \/ DestroyStackExists(p) \/ DestroyDelete(p) \/ DestroyWait(p)
    \/ DestroyStop(p)

\* The invocation in slot p is in a wait whose object is still in progress.
Pending(p) ==
    CASE At(p, "waitForChangeSet") -> waitForChangeSet(Name(p)).kind = "pending"
      [] At(p, "recoverWait") -> waitForStack(Name(p), FALSE).kind = "pending"
      [] At(p, "destroyWait") -> waitForStack(Name(p), FALSE).kind = "pending"
      [] At(p, "waitForStack") -> waitForStack(Name(p), TRUE).kind = "pending"
      [] OTHER -> FALSE

\* A remote call that is awaited is answered (the continuation then runs);
\* a changeset stabilizes; a stack leaves its in-progress status.
Fairness ==
    /\ WF_vars(InvocationStep(Caller) /\ ~Pending(Caller))
    /\ WF_vars(ChangeSetStabilizes(Target))
    /\ WF_vars(StackSettles(Target))

\* One invocation of the caller, from any of the initial stacks.
NextOnce ==
    \/ \E o \in DeployOptions(Target) : DeployStart(Caller, o)
    \/ GetStackId(Caller)
    \/ ReadCurrentTemplate(Caller)
    \/ SkipReturn(Caller)
    \/ PrepareAssets(Caller)
    \/ MakeBodyParameter(Caller)
    \/ StackFailedCreating(Caller)
    \/ RecoverDelete(Caller)
    \/ RecoverWait(Caller)
    \/ StackExists(Caller)
    \/ CreateChangeSet(Caller)
    \/ WaitForChangeSet(Caller)
    \/ DeleteChangeSet(Caller)
    \/ NoOpReturn(Caller)
    \/ ExecuteChangeSet(Caller)
    \/ WaitForStack(Caller)
    \/ StopMonitor(Caller)
    \/ ReturnResult(Caller)
    \/ \E o \in DestroyOptions(Target) : DestroyStart(Caller, o)
    \/ DestroyStackExists(Caller)
    \/ DestroyDelete(Caller)
    \/ DestroyWait(Caller)
    \/ DestroyStop(Caller)
    \/ ChangeSetStabilizes(Target)
    \/ StackSettles(Target)
    \/ ExternalDelete(Target)

FairSpec == Init /\ [][NextOnce]_vars /\ Fairness

\* Two callers at once, each with one invocation on a stack of its own.
StackOf(p) == IF p = "c1" THEN "S1" ELSE "S2"

\* The first caller deploys the deployed template or a changed one; the
\* second deploys a changed one or destroys.
ParOptions(p) ==
    {o \in DeployOptions(StackOf(p)) \cup DestroyOptions(StackOf(p)) :
        /\ o.hasEnv /\ ~o.force /\ ~o.quiet
        /\ o.op = "destroy" => p = "c2"
        /\ o.op = "deploy" =>
            /\ o.toolkit /\ o.execute = "unset"
            /\ o.template \in (IF p = "c1" THEN {DocA, DocAr} ELSE {DocAr})}

ParInitialStacks(n) ==
    IF n = "S1"
    THEN {LiveStack(1, "CREATE_COMPLETE", DocA),
          LiveStack(1, "ROLLBACK_COMPLETE", DocA)}
    ELSE {LiveStack(1, "CREATE_COMPLETE", DocA)}

InitPar ==
    /\ \E s1 \in ParInitialStacks("S1"), s2 \in ParInitialStacks("S2") :
        cfn = [n \in StackNames |->
                [stack |-> IF n = "S1" THEN s1 ELSE s2,
                 cs |-> NoChangeSet, nextId |-> 2]]
    /\ inv = [p \in Procs |-> IdleInv]
    /\ prev = [p \in Procs |-> NoPrev]
    /\ runs = [p \in Procs |-> 0]
    /\ extDel = 0

NextPar ==
    \/ \E p \in Procs :
        \/ \E o \in ParOptions(p) : DeployStart(p, o)
        \/ GetStackId(p)
        \/ ReadCurrentTemplate(p)
        \/ SkipReturn(p)
        \/ PrepareAssets(p)
        \/ MakeBodyParameter(p)
        \/ StackFailedCreating(p)
        \/ RecoverDelete(p)
        \/ RecoverWait(p)
        \/ StackExists(p)
        \/ CreateChangeSet(p)
        \/ WaitForChangeSet(p)
        \/ DeleteChangeSet(p)
        \/ NoOpReturn(p)
        \/ ExecuteChangeSet(p)
        \/ WaitForStack(p)
        \/ StopMonitor(p)
        \/ ReturnResult(p)
        \/ \E o \in ParOptions(p) : DestroyStart(p, o)
        \/ DestroyStackExists(p)
        \/ DestroyDelete(p)
        \/ DestroyWait(p)
        \/ DestroyStop(p)
    \/ \E n \in StackNames :
        \/ ChangeSetStabilizes(n)
        \/ StackSettles(n)
        \/ ExternalDelete(n)

SpecPar == InitPar /\ [][NextPar]_vars


\* ------------------------------------------------------------- the claims
Cur == inv[Caller]
Last == prev[Caller]
Deploying == Cur.opts.op = "deploy"
Destroying == Cur.opts.op = "destroy"
Returned == Cur.outcome = "returned"
Failed == Cur.outcome = "failed"
CurrentOutputs == getStackOutputs(describeStack(Target))

\* The skip guard fetched a deployed template that is the desired document.
DeployedIsDesired ==
    /\ Deploying /\ ~Cur.opts.force
    /\ Cur.compared # "no"
    /\ Value(Cur.deployed).template = Cur.opts.template

\* C1 Idempotent no-op: an unforced deployStack that finds the desired
\* template deployed takes the skip return: it issues no mutating call, it can
\* only return noOp=true with the stack's current outputs and the id of the
\* stack that was there (or fail on a rejected read), and a re-run after a
\* returned run with the same options returns the same stackArn and outputs.
C1_IdempotentNoOp ==
    DeployedIsDesired =>
        /\ Cur.compared = "equal"
        /\ Cur.pc \in {"skipReturn", "done"}
        /\ Mutations(Cur) = 0
        /\ Failed => Cur.error.kind = "RemoteError"
        /\ Returned =>
            /\ Cur.via = "skip"
            /\ Cur.result.noOp
            /\ Cur.result.stackArn = Cur.before.id
            /\ Cur.result.outputs = CurrentOutputs
            /\ (Last.outcome = "returned" /\ cfn[Target].stack.exists) =>
                /\ Cur.result.stackArn = Last.result.stackArn
                /\ Cur.result.outputs = Last.result.outputs

\* A second deployStack skipped after the first one executed its changeset.
C1_Witness ==
    /\ DeployedIsDesired /\ Returned /\ Cur.result.noOp
    /\ Last.outcome = "returned" /\ Last.via = "executed"
    /\ Cur.opts = Last.opts


\* C2 Monitor lifecycle: once deployStack or destroyStack has returned or
\* failed, every monitor it started has been stopped exactly once and none
\* is still running.
C2_MonitorStoppedOnEveryPath ==
    Cur.pc = "done" => (Cur.stops = Cur.starts /\ Cur.monitor # "running")

\* call a is issued, and before any call b
IssuedBefore(r, a, b) ==
    \E i \in 1..Len(r.calls) :
        /\ r.calls[i] = a
        /\ \A j \in 1..i : r.calls[j] # b

\* the calls a, b, c occur in this order
InOrder(r, a, b, c) ==
    \E i, j, k \in 1..Len(r.calls) :
        i < j /\ j < k /\ r.calls[i] = a /\ r.calls[j] = b /\ r.calls[k] = c

DeletedStatuses == {"absent", "DELETE_COMPLETE"}

\* C3 Failed-creation recovery: a createChangeSet issued for a stack that
\* was in a failed-creation status at the failed-creation check comes after a
\* deleteStack and the wait on it, and that wait ended with the stack absent
\* or DELETE_COMPLETE; if the wait ended in another status, deployStack has
\* failed with that status in its error and issued no createChangeSet.
C3_FailedCreationRecovery ==
    /\ (/\ Deploying
        /\ Cur.checked \in FailedCreationStatuses
        /\ Issued(Cur, "createChangeSet")) =>
            /\ InOrder(Cur, "deleteStack", "waitForStack", "createChangeSet")
            /\ IssuedBefore(Cur, "deleteStack", "createChangeSet")
            /\ Cur.recovered \in DeletedStatuses
    /\ (Deploying /\ Cur.recovered \notin ({"no"} \cup DeletedStatuses)) =>
            /\ Failed
            /\ Cur.error.kind = "FailedDeleting"
            /\ Cur.error.status = Cur.recovered
            /\ ~Issued(Cur, "createChangeSet")

\* A changeset was requested after the failed stack had been deleted.
C3_Witness ==
    /\ Deploying
    /\ Cur.checked \in FailedCreationStatuses
    /\ Cur.recovered = "absent"
    /\ Issued(Cur, "createChangeSet")

\* The changeset deployStack created has stabilized with zero changes.
StabilizedEmpty ==
    /\ Deploying
    /\ Cur.description.status # "NONE"
    /\ Cur.description.changes = 0

\* C4 Empty-diff safety: once the changeset has stabilized with zero
\* changes, deployStack goes on to deleteChangeSet and to the noOp=true
\* return only: no executeChangeSet and no monitor, whatever execute and
\* quiet are.
C4_EmptyDiffSafety ==
    StabilizedEmpty =>
        /\ Cur.pc \in {"deleteChangeSet", "noOpReturn", "done"}
        /\ Cur.pc # "deleteChangeSet" => Issued(Cur, "deleteChangeSet")
        /\ ~Issued(Cur, "executeChangeSet")
        /\ Cur.starts = 0
        /\ Returned => (Cur.result.noOp /\ Cur.via = "emptyDiff")
        /\ Failed => Cur.error.kind = "RemoteError"

\* An empty changeset was deleted and reported as a no-op although execution
\* was asked for and progress display was not silenced.
C4_Witness ==
    /\ StabilizedEmpty /\ Returned /\ Cur.result.noOp
    /\ Cur.opts.execute = "true" /\ ~Cur.opts.quiet

\* C5 Anomalous terminal state on deploy: deployStack returns an executed
\* result only after a stack wait that ended in a terminal-success status.
C5_ExecutedResultOnlyAfterSuccess ==
    (Deploying /\ Returned /\ Cur.via = "executed") =>
        Cur.waited \in SuccessStatuses

\* C6 Destroy idempotence: destroyStack on a stack that does not exist
\* issues no deleteStack, starts no monitor and returns (unless the existence
\* check itself is rejected); so does a destroyStack that follows a
\* destroyStack that returned after deleting the stack.
C6_DestroyIdempotence ==
    /\ (Destroying /\ Cur.opts.hasEnv /\ ~Cur.before.exists) =>
            /\ ~Issued(Cur, "deleteStack")
            /\ Cur.starts = 0
            /\ Cur.pc = "done" =>
                \/ Returned /\ Cur.via = "absent"
                \/ Failed /\ Cur.error.kind = "RemoteError"
    /\ (Destroying /\ Last.outcome = "returned" /\ Last.via = "destroyed") =>
            ~Issued(Cur, "deleteStack")

\* The destroyStack that follows a successful destroyStack has returned.
C6_Witness ==
    /\ Destroying /\ Returned /\ Cur.via = "absent"
    /\ Last.outcome = "returned" /\ Last.via = "destroyed"

\* C7 Destroy outcome: destroyStack issues deleteStack at most once, and
\* once its stack wait has ended it has issued it exactly once; it then
\* returns if and only if the wait ended with the stack absent or
\* DELETE_COMPLETE, and otherwise fails with the final status in its error.
C7_DestroyOutcome ==
    /\ Destroying => Count(Cur, "deleteStack") <= 1
    /\ (Destroying /\ Cur.pc = "done" /\ Cur.waited \notin {"no", "error"}) =>
            /\ Count(Cur, "deleteStack") = 1
            /\ IssuedBefore(Cur, "deleteStack", "waitForStack")
            /\ Returned <=> Cur.waited \in DeletedStatuses
            /\ Cur.waited \notin DeletedStatuses =>
                /\ Failed
                /\ Cur.error.kind = "FailedToDestroy"
                /\ Cur.error.status = Cur.waited

\* A destroyStack failed on a stack that ended in DELETE_FAILED.
C7_Witness ==
    /\ Destroying /\ Failed /\ Cur.waited = "DELETE_FAILED"
    /\ Cur.error.status = "DELETE_FAILED"

ExactlyOne(b) == IsDefined(b.TemplateBody) # IsDefined(b.TemplateURL)

\* C8 Mutual exclusivity: every body parameter makeBodyParameter returns,
\* and every createChangeSet request deployStack issues, sets exactly one of
\* TemplateBody and TemplateURL.
C8_MutualExclusivity ==
    /\ \A d \in Docs, t \in BOOLEAN :
        ~makeBodyParameter(d, t).throws => ExactlyOne(makeBodyParameter(d, t).value)
    /\ Cur.body # NoBody => ExactlyOne(Cur.body)
    /\ IsDefined(Cur.request) => ExactlyOne(Value(Cur.request))

\* A createChangeSet request went out with an uploaded template.
C8_Witness ==
    /\ IsDefined(Cur.request)
    /\ IsDefined(Value(Cur.request).TemplateURL)
    /\ Issued(Cur, "createChangeSet")

TemplateSize == TextLength(toYAML(Cur.opts.template))
SizeLimit == LARGE_TEMPLATE_SIZE_KB * 1024
Oversized == Deploying /\ Cur.opts.hasEnv /\ ~Cur.opts.toolkit /\ TemplateSize > SizeLimit

C9_Witness ==
    /\ Deploying /\ ~Cur.opts.toolkit
    /\ TemplateSize = SizeLimit
    /\ IsDefined(Cur.request)
    /\ IsDefined(Value(Cur.request).TemplateBody)

C10_ForceOverride ==
    (Deploying /\ Cur.opts.force) =>
        /\ Cur.compared = "no"
        /\ ~IsDefined(Cur.deployed)
        /\ ~Issued(Cur, "getTemplate")
        /\ Cur.pc \notin {"getStackId", "readCurrentTemplate", "skipReturn"}
        /\ Cur.via # "skip"
        /\ (Cur.pc = "done" /\ ~Issued(Cur, "createChangeSet")) => Failed

\* A forced deployStack requested a changeset for the template that was
\* already deployed.
C10_Witness ==
    /\ Deploying /\ Cur.opts.force
    /\ Cur.before.exists
    /\ Cur.before.template = toYAML(Cur.opts.template)
    /\ Issued(Cur, "createChangeSet")


\* The changeset deployStack created has stabilized with at least one change.
StabilizedWithChanges ==
    /\ Deploying
    /\ Cur.description.status # "NONE"
    /\ Cur.description.changes > 0

\* C11 Execute-or-review: with execute=false and a changeset that has
\* changes, deployStack goes to its final return only: no executeChangeSet,
\* no deleteChangeSet, no monitor, no stack wait, a noOp=false result, and the
\* changeset is left in place; with execute unset or true it issues
\* executeChangeSet, and only once.
C11_ExecuteOrReview ==
    /\ (StabilizedWithChanges /\ Cur.opts.execute = "false") =>
        /\ Cur.pc \in {"returnResult", "done"}
        /\ ~Issued(Cur, "executeChangeSet")
        /\ ~Issued(Cur, "deleteChangeSet")
        /\ Cur.starts = 0
        /\ Cur.waited = "no"
        /\ Failed => Cur.error.kind = "RemoteError"
        /\ Returned =>
            /\ ~Cur.result.noOp
            /\ Cur.via = "review"
            /\ cfn[Target].stack.exists =>
                cfn[Target].cs.status = "CREATE_COMPLETE"
    /\ (StabilizedWithChanges /\ Cur.opts.execute \in {"unset", "true"}) =>
        /\ Cur.pc \in {"executeChangeSet", "waitForStack", "stopMonitor",
                       "returnResult", "done"}
        /\ Count(Cur, "executeChangeSet") =
                IF Cur.pc = "executeChangeSet" THEN 0 ELSE 1
        /\ Returned => Cur.via = "executed"

\* A changeset with changes was left for review.
C11_Witness ==
    /\ StabilizedWithChanges /\ Cur.opts.execute = "false"
    /\ Returned /\ ~Cur.result.noOp
    /\ cfn[Target].cs.status = "CREATE_COMPLETE"

\* A changeset was executed by a deployStack whose execute option was unset.
C11_WitnessUnset ==
    /\ StabilizedWithChanges /\ Cur.opts.execute = "unset"
    /\ Returned /\ Count(Cur, "executeChangeSet") = 1


C12_WitnessUpdate ==
    /\ Deploying /\ IsDefined(Cur.request)
    /\ Cur.existed \in SuccessStatuses
    /\ Value(Cur.request).ChangeSetType = "UPDATE"


\* Deep structural equality of two documents: the same keys with the same
\* values, whatever the order of the keys.
DeepEqual(a, b) ==
    /\ Len(a) = Len(b)
    /\ {a[i] : i \in 1..Len(a)} = {b[i] : i \in 1..Len(b)}

\* C13 Skip comparison is deep structural equality: the skip guard finds the
\* fetched deployed template equal to the desired one exactly when the two
\* documents are deeply structurally equal; a difference in key order alone
\* is no difference.
C13_SkipComparisonIsDeepEquality ==
    (Deploying /\ Cur.compared # "no") =>
        (Cur.compared = "equal" <=>
            DeepEqual(Cur.opts.template, Value(Cur.deployed).template))


\* C14 Configuration error: a deployStack or destroyStack whose stack has no
\* environment fails at once with the configuration error: no client is
\* acquired, no remote call is made, the stack is as it was.
C14_ConfigurationError ==
    (Cur.opts.op # "none" /\ ~Cur.opts.hasEnv) =>
        /\ Cur.pc = "done"
        /\ Failed
        /\ Cur.error.kind = "NoEnvironment"
        /\ ~Cur.client
        /\ Cur.calls = <<>>
        /\ Cur.starts = 0
        /\ cfn[Target].stack = Cur.before

\* A deployStack without environment has failed.
C14_Witness ==
    /\ Deploying /\ ~Cur.opts.hasEnv
    /\ Failed /\ Cur.error.kind = "NoEnvironment"

\* A destroyStack without environment has failed.
C14_WitnessDestroy ==
    /\ Destroying /\ ~Cur.opts.hasEnv
    /\ Failed /\ Cur.error.kind = "NoEnvironment"


\* C15 Not-found normalization: a "does not exist" answer to the skip guard's
\* describeStacks or getTemplate never makes deployStack fail.  When
\* describeStacks finds no stack there is no deployed template and the run
\* goes on to deploy; when the stack is gone at getTemplate the deployed
\* template is the empty document, compared as different, and the run goes on
\* to deploy.
C15_NotFoundNormalization ==
    /\ (Deploying /\ Cur.idSeen = "absent") =>
        /\ ~IsDefined(Cur.deployed)
        /\ Cur.compared = "no"
        /\ Cur.templateSeen = "no"
        /\ Cur.pc = "prepareAssets" \/ Issued(Cur, "prepareAssets")
    /\ (Deploying /\ Cur.templateSeen = "absent") =>
        /\ Cur.idSeen = "found"
        /\ IsDefined(Cur.deployed)
        /\ Value(Cur.deployed).template = EmptyDoc
        /\ Value(Cur.deployed).stackId = Cur.before.id
        /\ Cur.compared = "different"
        /\ Cur.pc = "prepareAssets" \/ Issued(Cur, "prepareAssets")

\* The stack was there at describeStacks and gone at getTemplate, and the
\* invocation returned a result.
C15_Witness ==
    /\ Deploying /\ Cur.templateSeen = "absent"
    /\ Returned

\* No stack at describeStacks, and the invocation returned a result.
C15_WitnessNoStack ==
    /\ Deploying /\ Cur.idSeen = "absent"
    /\ Returned


\* C16 No retry and error propagation: within one invocation each mutating
\* call is issued at most once, and a remote call rejected with an error
\* other than "does not exist" ends the invocation with that error: the
\* rejected call is the last entry of the call log.
C16_NoRetryAndErrorPropagation ==
    /\ \A c \in MutatingCalls : Count(Cur, c) <= 1
    /\ Cur.error.kind = "RemoteError" =>
        /\ Cur.pc = "done"
        /\ Failed
        /\ Cur.calls # <<>>
        /\ Cur.calls[Len(Cur.calls)] = Cur.error.call
    /\ (Cur.outcome = "running" /\ Cur.pc # "done") =>
            Cur.error.kind = "None"

\* A mutating call was rejected after an earlier mutating call had been
\* accepted, and the invocation failed there.
C16_Witness ==
    /\ Failed /\ Cur.error.kind = "RemoteError"
    /\ Cur.error.call \in MutatingCalls
    /\ Mutations(Cur) >= 2


\* C17 noOp results keep stack identity: every noOp=true result of a
\* deployStack that began on an existing stack, nobody else deleting the
\* stack meanwhile, reports the id that stack had when the invocation began
\* (skip guard, empty diff, empty diff after the failed-creation recovery).
C17_NoOpKeepsStackIdentity ==
    (Deploying /\ Returned /\ Cur.result.noOp /\ Cur.before.exists
        /\ extDel = 0) =>
        Cur.result.stackArn = Cur.before.id


\* The place of a step in deployStack's (destroyStack's) pipeline.
StepRank(pc) ==
    CASE pc = "idle" -> 0
      [] pc \in {"getStackId", "destroyStackExists"} -> 1
      [] pc \in {"readCurrentTemplate", "destroyDelete"} -> 2
      [] pc \in {"skipReturn", "destroyWait"} -> 3
      [] pc \in {"prepareAssets", "destroyStop"} -> 4
      [] pc = "makeBodyParameter" -> 5
      [] pc = "stackFailedCreating" -> 6
      [] pc = "recoverDelete" -> 7
      [] pc = "recoverWait" -> 8
      [] pc = "stackExists" -> 9
      [] pc = "createChangeSet" -> 10
      [] pc = "waitForChangeSet" -> 11
      [] pc = "deleteChangeSet" -> 12
      [] pc = "noOpReturn" -> 13
      [] pc = "executeChangeSet" -> 14
      [] pc = "waitForStack" -> 15
      [] pc = "stopMonitor" -> 16
      [] pc = "returnResult" -> 17
      [] OTHER -> 18

\* The place of a logged call in the pipeline; 0 for the calls (describeStacks,
\* waitForStack) that are made at more than one place.
CallRank(c) ==
    CASE c = "getTemplate" -> 2
      [] c = "prepareAssets" -> 4
      [] c = "uploadIfChanged" -> 5
      [] c = "deleteStack" -> 7
      [] c = "createChangeSet" -> 10
      [] c = "waitForChangeSet" -> 11
      [] c = "deleteChangeSet" -> 12
      [] c = "executeChangeSet" -> 14
      [] c = "monitor.start" -> 15
      [] c = "monitor.stop" -> 17
      [] OTHER -> 0

\* the whole call sequence of a destroyStack that deletes the stack
DestroyCalls(quiet) ==
    IF quiet THEN <<"describeStacks", "deleteStack", "waitForStack">>
    ELSE <<"describeStacks", "monitor.start", "deleteStack", "waitForStack",
           "monitor.stop">>

IsPrefix(a, b) == Len(a) <= Len(b) /\ \A i \in 1..Len(a) : a[i] = b[i]

\* The call log of the running or finished invocation is in pipeline order.
PipelineLogOrdered ==
    /\ Deploying =>
        /\ \A i, j \in 1..Len(Cur.calls) :
            (i < j /\ CallRank(Cur.calls[i]) > 0 /\ CallRank(Cur.calls[j]) > 0)
                => CallRank(Cur.calls[i]) < CallRank(Cur.calls[j])
        \* a wait on the stack directly follows the recovery delete, or the
        \* accepted executeChangeSet and the monitor start
        /\ \A i \in 1..Len(Cur.calls) : Cur.calls[i] = "waitForStack" =>
            /\ i > 1
            /\ Cur.calls[i - 1] \in
                {"deleteStack",
                 IF Cur.opts.quiet THEN "executeChangeSet" ELSE "monitor.start"}
        /\ Issued(Cur, "monitor.start") =>
            /\ IssuedBefore(Cur, "executeChangeSet", "monitor.start")
            /\ Cur.error.call # "executeChangeSet"
        /\ Cur.error.call = "executeChangeSet" => Cur.starts = 0
        \* executeChangeSet only for a changeset seen out of its transitional
        \* statuses
        /\ (Issued(Cur, "executeChangeSet") \/ Cur.pc = "executeChangeSet") =>
            /\ Cur.description.status \in {"CREATE_COMPLETE", "FAILED"}
            /\ IssuedBefore(Cur, "waitForChangeSet", "executeChangeSet")
                \/ Cur.pc = "executeChangeSet"
        \* the steps that leave no unambiguous entry in the log
        /\ Issued(Cur, "createChangeSet") =>
            /\ Cur.checked # "no" /\ Cur.existed # "no"
            /\ IsDefined(Cur.body.TemplateBody) \/ IsDefined(Cur.body.TemplateURL)
        /\ Cur.existed # "no" => Cur.checked # "no"
        /\ Cur.checked # "no" => Issued(Cur, "prepareAssets")
    /\ Destroying =>
        /\ IsPrefix(Cur.calls, DestroyCalls(Cur.opts.quiet))
        /\ Issued(Cur, "deleteStack") => Cur.starts = (IF Cur.opts.quiet THEN 0 ELSE 1)
        \* the final status is evaluated with the monitor stopped
        /\ (Cur.via = "destroyed" \/ Cur.error.kind = "FailedToDestroy") =>
            /\ Cur.monitor # "running"
            /\ Cur.stops = Cur.starts
    /\ Cur.opts.quiet =>
        /\ Cur.starts = 0
        /\ Cur.monitor = "none"
        /\ ~Issued(Cur, "monitor.start")

\* Every step of the invocation moves it forward in the pipeline.
PipelineStepsForward ==
    (inv'[Caller] # inv[Caller] /\ inv[Caller].pc \notin {"idle", "done"}) =>
        /\ inv'[Caller].opts = inv[Caller].opts
        /\ StepRank(inv'[Caller].pc) > StepRank(inv[Caller].pc)
        /\ IsPrefix(inv[Caller].calls, inv'[Caller].calls)

\* C19 Pipeline ordering: the steps of deployStack occur only in the order
\* skip guard, asset preparation, body resolution, failed-creation check and
\* recovery, existence check, createChangeSet, changeset wait,
\* executeChangeSet, monitor start, stack wait, monitor stop;
\* executeChangeSet is never issued before the changeset left its
\* transitional statuses; the monitor is never started before
\* executeChangeSet was accepted and never when quiet is set; destroyStack
\* starts the monitor (unless quiet) before deleteStack and stops it before
\* the final status is evaluated.
C19_PipelineOrdering == []PipelineLogOrdered /\ [][PipelineStepsForward]_vars

\* A deployStack went through the whole pipeline, recovery included.
C19_Witness ==
    /\ Deploying /\ Returned /\ Cur.via = "executed"
    /\ Issued(Cur, "getTemplate") /\ Issued(Cur, "uploadIfChanged")
    /\ Issued(Cur, "deleteStack") /\ Issued(Cur, "monitor.stop")

\* A destroyStack deleted the stack with the monitor running.
C19_WitnessDestroy ==
    /\ Destroying /\ Returned /\ Cur.via = "destroyed"
    /\ Cur.calls = DestroyCalls(FALSE)


\* Leaving a wait whose object is still in progress is possible only by a
\* rejected poll.
NoOwnDeadline ==
    (Pending(Caller) /\ inv'[Caller] # inv[Caller]) =>
        /\ inv'[Caller].outcome = "failed"
        /\ inv'[Caller].error.kind = "RemoteError"

\* What a completed wait saw was out of its in-progress statuses.
WaitsCompleted ==
    /\ Cur.waited \notin InProgressStatuses
    /\ Cur.recovered \notin InProgressStatuses
    /\ Cur.description.status \notin {"CREATE_PENDING", "CREATE_IN_PROGRESS"}
    /\ (Returned /\ Cur.via \in {"executed", "destroyed"}) =>
            Cur.waited \notin {"no", "error"}

\* C20 Termination without own deadline: remote calls being answered,
\* changesets stabilizing and stacks leaving their in-progress statuses, every
\* invocation eventually returns or fails; and it has no deadline of its
\* own: as long as the changeset or stack it waits for is in progress it
\* stays in the wait and returns no result.
C20_TerminationWithoutDeadline ==
    /\ (Cur.outcome = "running") ~> (Cur.pc = "done")
    /\ []WaitsCompleted
    /\ [][NoOwnDeadline]_vars

\* An invocation sits in the stack wait while the stack is in progress.
C20_Witness ==
    /\ Deploying /\ Cur.pc = "waitForStack" /\ Pending(Caller)
    /\ cfn[Target].stack.status \in InProgressStatuses


\* Everything an invocation in slot p on the stack named n can read or write.
Side(p, n) == <<inv[p], prev[p], runs[p], cfn[n]>>

SideOne == Side("c1", "S1")
SideTwo == Side("c2", "S2")

\* A step of the caller in slot p, alone with the stack named n: what Next
\* is for Caller and Target.
AloneStep(p, n) ==
    \/ \E o \in DeployOptions(n) : DeployStart(p, o)
    \/ \E o \in DestroyOptions(n) : DestroyStart(p, o)
    \/ InvocationStep(p)
    \/ Finish(p)
    \/ ChangeSetStabilizes(n)
    \/ StackSettles(n)
    \/ ExternalDelete(n)

\* C18 Cross-stack independence: with two invocations at once on different
\* stack names, under every interleaving, whatever changes one invocation's
\* side (its locals, its call log, its result, its stack) is a step that
\* invocation can take when it runs alone, and leaves the other side as it
\* is: each invocation issues a sequence of calls and produces a result that
\* it can issue and produce alone.
C18_CrossStackIndependence ==
    /\ [][AloneStep("c1", "S1")]_SideOne
    /\ [][AloneStep("c2", "S2")]_SideTwo

\* Both invocations are under way, each having changed its own stack.
C18_Witness ==
    /\ \A p \in Procs :
        /\ inv[p].outcome = "running"
        /\ Mutations(inv[p]) >= 1
        /\ Name(p) = StackOf(p)
    /\ cfn["S1"].stack.status \in InProgressStatuses
    /\ cfn["S2"].stack.status \in InProgressStatuses

====
